---- MODULE Spec2Model ----
(***************************************************************************)
(* Model of two subsystems:                                                *)
(*   - asset_system: AssetLibrary's storage of AssetRepresentations, its   *)
(*     catalog service and the exploding of asset paths                    *)
(*     (source/blender/asset_system/intern/asset_library.cc)               *)
(*   - editors/screen: the immediate-mode image drawing helpers and the    *)
(*     polygon offset hack (source/blender/editors/screen/glutil.c)        *)
(* Each part has its own specification over the shared variable list; the  *)
(* variables of the other parts keep their initial values.                 *)
(***************************************************************************)
EXTENDS Integers, Sequences, FiniteSets, TLC

(***************************************************************************)
(* Bounds                                                                  *)
(***************************************************************************)
\* Number of AssetRepresentations allocated in one behaviour.
MaxAssets == 2

Addrs == 1..MaxAssets
Paths == {"Material/Wood", "Object/Chair"}
IDs == {"ID_a", "ID_b"}
Null == "nullptr"

VARIABLES
  \* ---- AssetLibrary and its AssetRepresentations ----
  next_addr,            \* the next representation to be allocated
  relative_identifier,  \* AssetRepresentation::relative_identifier_
  is_local_id,          \* AssetRepresentation::is_local_id_
  local_asset_id,       \* AssetRepresentation::local_asset_id_ (Null for external)
  use_count,            \* strong count of the shared_ptr control block
  held,                 \* representations a caller holds a locked shared_ptr of
  local_id_assets,      \* storage_.local_id_assets (keys are pointers)
  external_assets,      \* storage_.external_assets
  last,                 \* the last call: its name, argument, return value
  \* ---- AssetLibrary::refresh_catalog_simplename ----
  catalogs,             \* the catalog service: catalog ID -> AssetCatalog, or NoCatalog
  asset_data,           \* an AssetMetaData: catalog_id, catalog_simple_name[]
  cat_last,             \* the last call on the catalog side
  \* ---- glutil.c: image drawing ----
  gl,                   \* the GL context's state and the immediate-mode binding
  texid,                \* get_cached_work_texture's static texid
  draw,                 \* what the last immDrawPixelsTex* call did
  imbuf,                \* what the last glaDrawImBuf_glsl_clipping call did
  pc,                   \* the drawing caller: "idle", or "returned" from a call
  \* ---- glutil.c: bglPolygonOffset ----
  projection,           \* the GL context's projection matrix (GL_PROJECTION_MATRIX)
  matrix_mode,          \* the GL context's matrix mode
  winmat,               \* bglPolygonOffset's static winmat[16]
  offset,               \* bglPolygonOffset's static offset
  po,                   \* the calls since offset was last 0, as their caller saw them
  \* ---- AS_asset_full_path_explode_from_weak_ref and its caller ----
  r_path_buffer,        \* the caller's char r_path_buffer[FILE_MAX_LIBEXTRA]
  r_dir,                \* the caller's char *dir, whose address is passed or not
  r_group,              \* the caller's char *group
  r_name,               \* the caller's char *name
  explode_last,         \* the last call: what the reference resolved to, what was passed
  \* ---- AssetLibrary::load_catalogs and catalog_service ----
  catalog_service_,         \* AssetLibrary::catalog_service_ (0 is nullptr)
  catalog_service_mutex_,   \* the thread that holds the mutex, or "unlocked"
  service_state,            \* every AssetCatalogService object's life so far
  thread                    \* per thread: its position and its locals

asset_vars == <<next_addr, relative_identifier, is_local_id, local_asset_id,
                use_count, held, local_id_assets, external_assets, last>>

catalog_vars == <<catalogs, asset_data, cat_last>>

draw_vars == <<gl, texid, draw, imbuf, pc>>

polygon_vars == <<projection, matrix_mode, winmat, offset, po>>

\* The variables of the subsystems listed after the first three.
explode_vars == <<r_path_buffer, r_dir, r_group, r_name, explode_last>>

service_vars == <<catalog_service_, catalog_service_mutex_, service_state, thread>>

rest_vars == <<polygon_vars, explode_vars, service_vars>>

vars == <<asset_vars, catalog_vars, draw_vars, rest_vars>>

(***************************************************************************)
(* AssetRepresentation                                                     *)
(***************************************************************************)
\* Constructor for an external asset: not local, no ID pointer.
AssetRepresentation_external(relative_asset_path) ==
  [relative_identifier |-> relative_asset_path, is_local_id |-> FALSE,
   local_asset_id |-> Null]

\* Constructor for an ID of the current file: local, holds the ID's address.
AssetRepresentation_local(relative_asset_path, id) ==
  [relative_identifier |-> relative_asset_path, is_local_id |-> TRUE,
   local_asset_id |-> id]

Allocated == 1..(next_addr - 1)
Stored == local_id_assets \cup external_assets
\* std::weak_ptr::expired() of the weak_ptr that add_*_asset returned for a.
expired(a) == use_count[a] = 0

(***************************************************************************)
(* Set<std::shared_ptr<AssetRepresentation>>::lookup_key_or_add: the key   *)
(* is hashed and compared by its pointer; an equal key already in the set  *)
(* is returned, otherwise the new key is added.                            *)
(***************************************************************************)
lookup_key_or_add(set, key) ==
  IF key \in set THEN [set |-> set, key |-> key, added |-> FALSE]
  ELSE [set |-> set \cup {key}, key |-> key, added |-> TRUE]

\* Set::remove_as(&asset): removes the key with that pointer, true if there was one.
remove_as(set, key) == [set |-> set \ {key}, ret |-> key \in set]

NoResults == [a \in Addrs |-> "none"]

\* What a call leaves for its caller: the returned weak_ptr's target (ptr) or the
\* returned bool (ret); for remap, the IDRemapper's result per stored local asset.
Call(op, arg, ret, ptr, results) ==
  [op |-> op, arg |-> arg, ret |-> ret, ptr |-> ptr, results |-> results]

(***************************************************************************)
(* storage_.<set>.lookup_key_or_add(std::make_shared<AssetRepresentation>( *)
(* ...)): a new representation is allocated, its shared_ptr is moved into  *)
(* the set (owners = 1: the set holds the only owning reference), and a    *)
(* weak_ptr to the stored key is returned.                                 *)
(***************************************************************************)
AddAsset(op, rep, to_local, owners) ==
  /\ next_addr <= MaxAssets
  /\ LET a == next_addr
         r == lookup_key_or_add(IF to_local THEN local_id_assets ELSE external_assets, a)
     IN /\ local_id_assets' = IF to_local THEN r.set ELSE local_id_assets
        /\ external_assets' = IF to_local THEN external_assets ELSE r.set
        /\ relative_identifier' = [relative_identifier EXCEPT ![a] = rep.relative_identifier]
        /\ is_local_id' = [is_local_id EXCEPT ![a] = rep.is_local_id]
        /\ local_asset_id' = [local_asset_id EXCEPT ![a] = rep.local_asset_id]
        /\ use_count' = IF r.added THEN [use_count EXCEPT ![a] = owners] ELSE use_count
        /\ next_addr' = a + 1
        /\ last' = Call(op, a, FALSE, r.key, NoResults)
        /\ UNCHANGED <<held, catalog_vars, draw_vars, rest_vars>>

(***************************************************************************)
(* AssetLibrary::add_external_asset                                        *)
(***************************************************************************)
\* Faulty variant: a second owning reference is kept besides the one in the set.
add_external_asset_extra_owner(relative_asset_path) ==
  AddAsset("add_external_asset", AssetRepresentation_external(relative_asset_path),
           FALSE, 2)

add_external_asset(relative_asset_path) ==
  AddAsset("add_external_asset", AssetRepresentation_external(relative_asset_path),
           FALSE, 1)

(***************************************************************************)
(* AssetLibrary::add_local_id_asset                                        *)
(***************************************************************************)
\* Faulty variant: the local representation is put into the external set.
add_local_id_asset_external_set(relative_asset_path, id) ==
  AddAsset("add_local_id_asset", AssetRepresentation_local(relative_asset_path, id),
           FALSE, 1)

add_local_id_asset(relative_asset_path, id) ==
  AddAsset("add_local_id_asset", AssetRepresentation_local(relative_asset_path, id),
           TRUE, 1)

(***************************************************************************)
(* AssetLibrary::remove_asset, as a function of the storage: the new sets  *)
(* and the return value.                                                   *)
(***************************************************************************)
\* Faulty variant: only the local-ID set is searched.
RemoveAsset_local_only(loc, ext, a) ==
  LET l == remove_as(loc, a)
  IN [local_id_assets |-> l.set, external_assets |-> ext, ret |-> l.ret]

RemoveAsset(loc, ext, a) ==
  LET l == remove_as(loc, a)
      e == remove_as(ext, a)
  IN IF l.ret
     THEN [local_id_assets |-> l.set, external_assets |-> ext, ret |-> TRUE]
     ELSE [local_id_assets |-> loc, external_assets |-> e.set, ret |-> e.ret]

\* The shared_ptr keys a removal destroyed each give up one owner.
DropOwners(count, before, after) ==
  [a \in Addrs |-> IF a \in before /\ a \notin after THEN count[a] - 1 ELSE count[a]]

\* The caller passes a reference to a live representation.
remove_asset(a) ==
  /\ a \in Allocated
  /\ use_count[a] > 0
  /\ LET r == RemoveAsset(local_id_assets, external_assets, a)
     IN /\ local_id_assets' = r.local_id_assets
        /\ external_assets' = r.external_assets
        /\ use_count' = DropOwners(use_count, Stored,
                                   r.local_id_assets \cup r.external_assets)
        /\ last' = Call("remove_asset", a, r.ret, 0, NoResults)
        /\ UNCHANGED <<next_addr, relative_identifier, is_local_id,
                       local_asset_id, held, catalog_vars, draw_vars, rest_vars>>

(***************************************************************************)
(* bke::id::IDRemapper::apply(&id_ptr, ID_REMAP_APPLY_DEFAULT).  A mapping *)
(* gives, per ID, "unmapped", another ID, or Null (the ID is unassigned).  *)
(***************************************************************************)
Unmapped == "unmapped"
Mappings == [IDs -> IDs \cup {Null, Unmapped}]

IDRemapper_apply(mappings, id_ptr) ==
  IF id_ptr = Null
  THEN [id |-> id_ptr, result |-> "ID_REMAP_RESULT_SOURCE_UNAVAILABLE"]
  ELSE IF mappings[id_ptr] = Unmapped
  THEN [id |-> id_ptr, result |-> "ID_REMAP_RESULT_SOURCE_NOT_MAPPABLE"]
  ELSE IF mappings[id_ptr] = Null
  THEN [id |-> Null, result |-> "ID_REMAP_RESULT_SOURCE_UNASSIGNED"]
  ELSE [id |-> mappings[id_ptr], result |-> "ID_REMAP_RESULT_SOURCE_REMAPPED"]

(***************************************************************************)
(* AssetLibrary::remap_ids_and_remove_invalid                              *)
(***************************************************************************)
\* The second loop: this->remove_asset(*asset) for every collected asset.
RECURSIVE RemoveAll(_, _, _)
RemoveAll(loc, ext, removed_assets) ==
  IF removed_assets = {}
  THEN [local_id_assets |-> loc, external_assets |-> ext]
  ELSE LET a == CHOOSE x \in removed_assets : TRUE
           r == RemoveAsset(loc, ext, a)
       IN RemoveAll(r.local_id_assets, r.external_assets, removed_assets \ {a})

\* The first loop's collection of the assets to remove.
\* Faulty variant: assets whose ID was unassigned are kept.
RemovedAssets_none(applied) == {}

RemovedAssets(applied) ==
  {a \in local_id_assets : applied[a].result = "ID_REMAP_RESULT_SOURCE_UNASSIGNED"}

remap_ids_and_remove_invalid(mappings) ==
  LET applied == [a \in Addrs |->
                    IF a \in local_id_assets
                    THEN IDRemapper_apply(mappings, local_asset_id[a])
                    ELSE [id |-> local_asset_id[a], result |-> "none"]]
      removed_assets == RemovedAssets(applied)
      r == RemoveAll(local_id_assets, external_assets, removed_assets)
  IN /\ local_asset_id' = [a \in Addrs |-> applied[a].id]
     /\ local_id_assets' = r.local_id_assets
     /\ external_assets' = r.external_assets
     /\ use_count' = DropOwners(use_count, Stored,
                                r.local_id_assets \cup r.external_assets)
     /\ last' = Call("remap_ids_and_remove_invalid", 0, FALSE, 0,
                     [a \in Addrs |-> applied[a].result])
     /\ UNCHANGED <<next_addr, relative_identifier, is_local_id, held,
                  catalog_vars, draw_vars, rest_vars>>

(***************************************************************************)
(* Callers of the library: the weak_ptr that add_*_asset returned is       *)
(* locked (a shared_ptr, if the representation is alive) and released; the *)
(* caller keeps at most one locked shared_ptr per representation.          *)
(***************************************************************************)
weak_ptr_lock(a) ==
  /\ a \in Allocated
  /\ a \notin held
  /\ IF expired(a)
     THEN UNCHANGED <<use_count, held>>
     ELSE /\ use_count' = [use_count EXCEPT ![a] = @ + 1]
          /\ held' = held \cup {a}
  /\ last' = Call("lock", a, ~expired(a), 0, NoResults)
  /\ UNCHANGED <<next_addr, relative_identifier, is_local_id, local_asset_id,
                 local_id_assets, external_assets, catalog_vars, draw_vars, rest_vars>>

shared_ptr_reset(a) ==
  /\ a \in Allocated
  /\ a \in held
  /\ use_count' = [use_count EXCEPT ![a] = @ - 1]
  /\ held' = held \ {a}
  /\ last' = Call("reset", a, FALSE, 0, NoResults)
  /\ UNCHANGED <<next_addr, relative_identifier, is_local_id, local_asset_id,
                 local_id_assets, external_assets, catalog_vars, draw_vars, rest_vars>>

(***************************************************************************)
(* AssetLibrary::refresh_catalog_simplename                                *)
(***************************************************************************)
\* Size of AssetMetaData::catalog_simple_name[] (scaled down).
SimpleNameSize == 3

NUL == "\\0"
Chars == {"a", "b"}
\* Simple names of catalogs: shorter than, as long as and longer than the field.
SimpleNames == {<<>>, <<"b">>, <<"a", "b">>, <<"b", "a", "a">>,
                <<"a", "b", "b", "a">>, <<"b", "b", "a", "b", "a">>}
NilUUID == "nil"
CatalogIDs == {"uuid_1", "uuid_2"}
\* An AssetCatalog (its simple_name), and the nullptr find_catalog returns for none.
AssetCatalog(simple_name) == [found |-> TRUE, simple_name |-> simple_name]
NoCatalog == [found |-> FALSE, simple_name |-> <<>>]
Catalogs == {AssetCatalog(n) : n \in SimpleNames}
Buffers == [1..SimpleNameSize -> Chars \cup {NUL}]

Min(x, y) == IF x < y THEN x ELSE y

\* strlen() of a char array holding a NUL.
StrLen(buf) ==
  IF \E i \in DOMAIN buf : buf[i] = NUL
  THEN (CHOOSE i \in DOMAIN buf : buf[i] = NUL /\ \A j \in 1..(i - 1) : buf[j] # NUL) - 1
  ELSE Len(buf)

\* The C string a char array holds: the chars before its first NUL.
CStr(buf) == [i \in 1..StrLen(buf) |-> buf[i]]

BLI_uuid_is_nil(uuid) == uuid = NilUUID

\* AssetCatalogService::find_catalog: the catalog with that ID, or nullptr.
find_catalog(service, catalog_id) == service[catalog_id]

\* STRNCPY(dst, src): BLI_strncpy with the size of dst: at most size - 1 chars
\* are copied and a NUL is written after them; the rest of dst is left alone.
STRNCPY(dst, src) ==
  LET srclen == Min(Len(src), Len(dst) - 1)
  IN [i \in DOMAIN dst |-> IF i <= srclen THEN src[i]
                           ELSE IF i = srclen + 1 THEN NUL
                           ELSE dst[i]]

\* Faulty variant: a catalog that cannot be found clears the simple name.
RefreshCatalogSimplename_clear_when_missing(service, data) ==
  IF BLI_uuid_is_nil(data.catalog_id)
  THEN [data EXCEPT !.catalog_simple_name[1] = NUL]
  ELSE LET catalog == find_catalog(service, data.catalog_id)
       IN IF catalog = NoCatalog
          THEN [data EXCEPT !.catalog_simple_name[1] = NUL]
          ELSE [data EXCEPT !.catalog_simple_name = STRNCPY(@, catalog.simple_name)]

\* The AssetMetaData after refresh_catalog_simplename(asset_data).
RefreshCatalogSimplename(service, data) ==
  IF BLI_uuid_is_nil(data.catalog_id)
  THEN [data EXCEPT !.catalog_simple_name[1] = NUL]
  ELSE LET catalog == find_catalog(service, data.catalog_id)
       IN IF catalog = NoCatalog
          THEN data
          ELSE [data EXCEPT !.catalog_simple_name = STRNCPY(@, catalog.simple_name)]

refresh_catalog_simplename ==
  /\ asset_data' = RefreshCatalogSimplename(catalogs, asset_data)
  /\ cat_last' = "refresh_catalog_simplename"
  /\ UNCHANGED <<catalogs, asset_vars, draw_vars, rest_vars>>

\* The asset is assigned to a catalog, or to none.
set_catalog_id(uuid) ==
  /\ asset_data' = [asset_data EXCEPT !.catalog_id = uuid]
  /\ cat_last' = "set_catalog_id"
  /\ UNCHANGED <<catalogs, asset_vars, draw_vars, rest_vars>>

\* A catalog is added to, renamed in or deleted from the catalog service.
update_catalog(uuid, catalog) ==
  /\ catalogs' = [catalogs EXCEPT ![uuid] = catalog]
  /\ cat_last' = "update_catalog"
  /\ UNCHANGED <<asset_data, asset_vars, draw_vars, rest_vars>>

CatalogInit ==
  /\ catalogs = [u \in CatalogIDs |-> NoCatalog]
  /\ asset_data = [catalog_id |-> NilUUID,
                   catalog_simple_name |-> [i \in 1..SimpleNameSize |-> NUL]]
  /\ cat_last = "construct"

CatalogNext ==
  \/ refresh_catalog_simplename
  \/ \E u \in CatalogIDs \cup {NilUUID} : set_catalog_id(u)
  \/ \E u \in CatalogIDs, c \in Catalogs \cup {NoCatalog} : update_catalog(u, c)

(***************************************************************************)
(* glutil.c: the cached work texture and immDrawPixelsTexScaled_clipping   *)
(***************************************************************************)
\* get_cached_work_texture's static tex_w and tex_h.
tex_w == 256
tex_h == 256

\* Largest number of tiles per axis among the image sizes tried.
MaxTiles == 2

\* Image sizes up to MaxTiles work textures, at and just past the multiples of
\* the seamless tile step.
ImgSizes ==
  {n \in 1..(MaxTiles * tex_w) : \E k \in 0..MaxTiles : n - k * (tex_w - 2) \in 0..3}

Formats == {"GL_RGBA", "GL_RGB", "GL_RED", "GL_LUMINANCE"}
Types == {"GL_UNSIGNED_BYTE", "GL_FLOAT"}

\* The float color[4] argument: NULL, or a color.
NullColor == [null |-> TRUE, rgba |-> <<0, 0, 0, 0>>]
Colors == {NullColor, [null |-> FALSE, rgba |-> <<1, 0, 0, 1>>]}
white == <<1, 1, 1, 1>>

\* A uniform of the program drawn with: not set by the call, or set to a value.
NotSet == [set |-> FALSE, value |-> <<>>]
Uniform(v) == [set |-> TRUE, value |-> v]

\* GL programs: 0 is "none"; two programs a caller may have bound, of which only
\* the first has a "color" uniform; the builtin GPU_SHADER_2D_IMAGE_COLOR; the
\* display-transform shader that the GLSL color management binds.
UserPrograms == {1, 2}
Builtin == [GPU_SHADER_2D_IMAGE_COLOR |-> 3, GLSL_DISPLAY_TRANSFORM |-> 4]
\* glGetUniformLocation(program, "color") != -1
HasColorUniform(program) == program \in {1, Builtin.GPU_SHADER_2D_IMAGE_COLOR}

\* Clip rectangles <<min_x, min_y, max_x, max_y>>; the first disables clipping.
NoClip == <<0, 0, 0, 0>>
ClipRects == {NoClip, <<0, 0, 200, 200>>, <<300, 300, 700, 700>>}
Scales == {1, 2}
Zooms == {1, 2}
Origins == {<<0, 0>>}

\* get_cached_work_texture(&tex_w, &tex_h): the texture is generated on the first
\* call (texid == -1) and left unbound.
\* Faulty variant: the static texid is not looked at, every call generates.
get_cached_work_texture_uncached(g, id) ==
  [texid |-> g.gen_textures + 1,
   gl |-> [g EXCEPT !.gen_textures = @ + 1,
                    !.tex_size = <<tex_w, tex_h>>,
                    !.tex_internal_format = "GL_RGBA8",
                    !.bound_texture = 0],
   w |-> tex_w, h |-> tex_h]

get_cached_work_texture(g, id) ==
  IF id = -1
  THEN [texid |-> g.gen_textures + 1,
        gl |-> [g EXCEPT !.gen_textures = @ + 1,
                         !.tex_size = <<tex_w, tex_h>>,
                         !.tex_internal_format = "GL_RGBA8",
                         !.bound_texture = 0],
        w |-> tex_w, h |-> tex_h]
  ELSE [texid |-> id, gl |-> g, w |-> tex_w, h |-> tex_h]

\* setup seamless 2=on, 0=off
\* Faulty variant: only the image's width is compared with the work texture.
Seamless_width_only(img_w, img_h, tw, th) ==
  IF tw < img_w /\ tw > 2 /\ th > 2 THEN 2 ELSE 0

Seamless(img_w, img_h, tw, th) ==
  IF (tw < img_w \/ th < img_h) /\ tw > 2 /\ th > 2 THEN 2 ELSE 0

\* One iteration of the tile loops: the tile's geometry, whether it is skipped
\* and the quad drawn for it.
Tile(a, tw, th, seamless, subpart_x, subpart_y) ==
  LET offset_x == tw - seamless
      offset_y == th - seamless
      remainder_x == a.img_w - subpart_x * offset_x
      remainder_y == a.img_h - subpart_y * offset_y
      subpart_w == IF remainder_x < tw THEN remainder_x ELSE tw
      subpart_h == IF remainder_y < th THEN remainder_y ELSE th
      offset_left == IF seamless # 0 /\ subpart_x # 0 THEN 1 ELSE 0
      offset_bot == IF seamless # 0 /\ subpart_y # 0 THEN 1 ELSE 0
      offset_right == IF seamless # 0 /\ remainder_x > tw THEN 1 ELSE 0
      offset_top == IF seamless # 0 /\ remainder_y > th THEN 1 ELSE 0
      rast_x == a.x + subpart_x * offset_x * a.xzoom
      rast_y == a.y + subpart_y * offset_y * a.yzoom
      use_clipping == a.clip_min_x < a.clip_max_x /\ a.clip_min_y < a.clip_max_y
      already_got == subpart_w <= seamless \/ subpart_h <= seamless
      clipped ==
        /\ use_clipping
        /\ \/ rast_x + (subpart_w - offset_right) * a.xzoom * a.scaleX < a.clip_min_x
           \/ rast_y + (subpart_h - offset_top) * a.yzoom * a.scaleY < a.clip_min_y
           \/ rast_x + offset_left * a.xzoom > a.clip_max_x
           \/ rast_y + offset_bot * a.yzoom > a.clip_max_y
  IN [subpart_x |-> subpart_x, subpart_y |-> subpart_y,
      subpart_w |-> subpart_w, subpart_h |-> subpart_h,
      offset_left |-> offset_left, offset_bot |-> offset_bot,
      offset_right |-> offset_right, offset_top |-> offset_top,
      skipped |-> already_got \/ clipped,
      \* the quad's corners on screen
      pos_min |-> <<rast_x + offset_left * a.xzoom, rast_y + offset_bot * a.yzoom>>,
      pos_max |-> <<rast_x + (subpart_w - offset_right) * a.xzoom * a.scaleX,
                    rast_y + (subpart_h - offset_top) * a.yzoom * a.scaleY>>]

\* The tiles the two loops draw.
\* Faulty variant: the tiles the loops skip are drawn as well.
DrawnTiles_all(a, tw, th, seamless) ==
  LET offset_x == tw - seamless
      offset_y == th - seamless
      nsubparts_x == (a.img_w + (offset_x - 1)) \div offset_x
      nsubparts_y == (a.img_h + (offset_y - 1)) \div offset_y
  IN {Tile(a, tw, th, seamless, sx, sy) :
        sx \in 0..(nsubparts_x - 1), sy \in 0..(nsubparts_y - 1)}

DrawnTiles(a, tw, th, seamless) ==
  LET offset_x == tw - seamless
      offset_y == th - seamless
      nsubparts_x == (a.img_w + (offset_x - 1)) \div offset_x
      nsubparts_y == (a.img_h + (offset_y - 1)) \div offset_y
      all == {Tile(a, tw, th, seamless, sx, sy) :
                sx \in 0..(nsubparts_x - 1), sy \in 0..(nsubparts_y - 1)}
  IN {t \in all : ~t.skipped}

NoDraw == [op |-> "none"]

\* The program to draw with, given GL_CURRENT_PROGRAM at entry.
\* Faulty variant: the builtin program is bound whatever is bound at entry.
ProgramToUse_always_builtin(program) == Builtin.GPU_SHADER_2D_IMAGE_COLOR

ProgramToUse(program) ==
  IF program # 0 THEN program ELSE Builtin.GPU_SHADER_2D_IMAGE_COLOR

\* The value given to immUniform4fv("color", ...).
\* Faulty variant: the color argument is ignored.
ColorToUse_always_white(color) == white

ColorToUse(color) == IF ~color.null THEN color.rgba ELSE white

(***************************************************************************)
(* immDrawPixelsTexScaled_clipping as a function of the GL state g, the    *)
(* static texid and the arguments a: the GL state and texid it leaves, and *)
(* the record of what it drew.                                             *)
(***************************************************************************)
ImmDrawPixelsTexScaled_clipping(g, id, a) ==
  LET wt == get_cached_work_texture(g, id)
      g1 == [wt.gl EXCEPT !.unpack_row_length = a.img_w,
                          !.bound_texture = wt.texid]
      seamless == Seamless(a.img_w, a.img_h, wt.w, wt.h)
      offset_x == wt.w - seamless
      offset_y == wt.h - seamless
      supported == a.format \in {"GL_RGBA", "GL_RGB", "GL_RED"}
      \* glTexImage2D(GL_TEXTURE_2D, 0, <internal format>, tex_w, tex_h, ...)
      g2 == [g1 EXCEPT !.tex_internal_format =
                          IF a.type = "GL_FLOAT" THEN "GL_RGBA16F_ARB" ELSE "GL_RGBA8",
                       !.tex_size = <<wt.w, wt.h>>]
      \* what get_cached_work_texture returned and the texture binding it left
      work_texture == [texid |-> wt.texid, w |-> wt.w, h |-> wt.h,
                       bound_texture |-> wt.gl.bound_texture]
      \* glaGetOneInt(GL_CURRENT_PROGRAM), then immBindProgram or
      \* immBindBuiltinProgram
      program == g2.current_program
      used == ProgramToUse(program)
      g_bound == [g2 EXCEPT !.current_program = used, !.imm_bound_program = used]
      color_uniform ==
        IF program # 0
        THEN IF HasColorUniform(program) THEN Uniform(ColorToUse(a.color)) ELSE NotSet
        ELSE Uniform(ColorToUse(a.color))
      image_uniform == IF program # 0 THEN NotSet ELSE Uniform(<<0>>)
      \* immUnbindProgram, glBindTexture(GL_TEXTURE_2D, 0), GL_UNPACK_ROW_LENGTH 0
      g3 == [g_bound EXCEPT !.current_program = 0, !.imm_bound_program = 0,
                       !.bound_texture = 0, !.unpack_row_length = 0]
  IN IF ~supported
     THEN [gl |-> g1, texid |-> wt.texid,
           draw |-> [op |-> "immDrawPixelsTexScaled_clipping", args |-> a,
                     returned_early |-> TRUE, entry_program |-> g.current_program,
                     work_texture |-> work_texture,
                     program |-> 0, color_uniform |-> NotSet, image_uniform |-> NotSet,
                     seamless |-> seamless, offset_x |-> offset_x, offset_y |-> offset_y,
                     nsubparts_x |-> (a.img_w + (offset_x - 1)) \div offset_x,
                     nsubparts_y |-> (a.img_h + (offset_y - 1)) \div offset_y,
                     tiles |-> {}]]
     ELSE [gl |-> g3, texid |-> wt.texid,
           draw |-> [op |-> "immDrawPixelsTexScaled_clipping", args |-> a,
                     returned_early |-> FALSE, entry_program |-> g.current_program,
                     work_texture |-> work_texture,
                     program |-> g_bound.imm_bound_program,
                     color_uniform |-> color_uniform,
                     image_uniform |-> image_uniform,
                     seamless |-> seamless, offset_x |-> offset_x, offset_y |-> offset_y,
                     nsubparts_x |-> (a.img_w + (offset_x - 1)) \div offset_x,
                     nsubparts_y |-> (a.img_h + (offset_y - 1)) \div offset_y,
                     tiles |-> DrawnTiles(a, wt.w, wt.h, seamless)]]

DrawArgs(x, y, img_w, img_h, format, type, scaleX, scaleY, clip, xzoom, yzoom, color) ==
  [x |-> x, y |-> y, img_w |-> img_w, img_h |-> img_h, format |-> format,
   type |-> type, scaleX |-> scaleX, scaleY |-> scaleY,
   clip_min_x |-> clip[1], clip_min_y |-> clip[2],
   clip_max_x |-> clip[3], clip_max_y |-> clip[4],
   xzoom |-> xzoom, yzoom |-> yzoom, color |-> color]

\* A call by the idle caller: the state the call leaves, under the caller's name
\* for it.
DrawCall(name, a) ==
  /\ pc = "idle"
  /\ LET r == ImmDrawPixelsTexScaled_clipping(gl, texid, a)
     IN /\ gl' = r.gl
        /\ texid' = r.texid
        /\ draw' = [r.draw EXCEPT !.op = name]
  /\ pc' = "returned"
  /\ UNCHANGED <<imbuf, asset_vars, catalog_vars, rest_vars>>

immDrawPixelsTexScaled_clipping(a) ==
  DrawCall("immDrawPixelsTexScaled_clipping", a)

immDrawPixelsTexScaled(x, y, img_w, img_h, format, type, scaleX, scaleY, xzoom, yzoom, color) ==
  DrawCall("immDrawPixelsTexScaled",
           DrawArgs(x, y, img_w, img_h, format, type, scaleX, scaleY, NoClip,
                    xzoom, yzoom, color))

immDrawPixelsTex(x, y, img_w, img_h, format, type, xzoom, yzoom, color) ==
  DrawCall("immDrawPixelsTex",
           DrawArgs(x, y, img_w, img_h, format, type, 1, 1, NoClip,
                    xzoom, yzoom, color))

immDrawPixelsTex_clipping(x, y, img_w, img_h, format, type, clip, xzoom, yzoom, color) ==
  DrawCall("immDrawPixelsTex_clipping",
           DrawArgs(x, y, img_w, img_h, format, type, 1, 1, clip,
                    xzoom, yzoom, color))

\* A caller binds its own shader, or none, before drawing.
glUseProgram(program) ==
  /\ pc = "idle"
  /\ gl' = [gl EXCEPT !.current_program = program]
  /\ UNCHANGED <<texid, draw, imbuf, pc, asset_vars, catalog_vars, rest_vars>>

\* The caller has looked at what the call did and goes on.
caller_continues ==
  /\ pc = "returned"
  /\ pc' = "idle"
  /\ draw' = NoDraw
  /\ imbuf' = NoDraw
  /\ UNCHANGED <<gl, texid, asset_vars, catalog_vars, rest_vars>>

(***************************************************************************)
(* glaDrawImBuf_glsl_clipping                                              *)
(***************************************************************************)
\* U.image_draw_method
DrawMethods == {"IMAGE_DRAW_METHOD_GLSL", "IMAGE_DRAW_METHOD_2DTEXTURE"}

\* An ImBuf: whether rect and rect_float are non-null, whether it has a float
\* colorspace, its channels and its size.
ImBufs ==
  [rect : BOOLEAN, rect_float : BOOLEAN, float_colorspace : BOOLEAN,
   channels : 1..4, x : {1, tex_w + 1}, y : {1}]

\* Faulty variant: single-channel buffers are not sent to the fallback.
ForceFallback_ignores_channels(ibuf, method) == method # "IMAGE_DRAW_METHOD_GLSL"

\* force_fallback after its two |= lines.
ForceFallback(ibuf, method) ==
  ibuf.channels = 1 \/ method # "IMAGE_DRAW_METHOD_GLSL"

\* IMB_colormanagement_setup_glsl_draw[_from_space]: when it succeeds the display
\* transform shader is bound.
setup_glsl_draw(g, ok) ==
  IF ok THEN [g EXCEPT !.current_program = Builtin.GLSL_DISPLAY_TRANSFORM] ELSE g

\* IMB_colormanagement_finish_glsl_draw and GPU_shader_unbind: no shader is bound.
shader_unbind(g) == [g EXCEPT !.current_program = 0]

\* The call as a function of the GL state, the static texid, the buffer, the
\* user's draw method and what the callees answer: whether the GLSL setup
\* succeeds (ok) and whether a display buffer can be acquired.
GlaDrawImBuf_glsl_clipping(g, id, ibuf, x, y, clip, zoom, method, ok, display_buffer) ==
  LET none == [gl |-> g, texid |-> id, draw |-> NoDraw]
      force_fallback == ForceFallback(ibuf, method)
      attempted == ~force_fallback
      glsl == attempted /\ ok
      float_format == IF ibuf.channels = 3 THEN "GL_RGB"
                      ELSE IF ibuf.channels = 4 THEN "GL_RGBA" ELSE "0"
      g_setup == setup_glsl_draw(g, TRUE)
      glsl_draw ==
        IF ibuf.rect_float
        THEN IF float_format # "0"
             THEN ImmDrawPixelsTexScaled_clipping(g_setup, id,
                    DrawArgs(x, y, ibuf.x, ibuf.y, float_format, "GL_FLOAT", 1, 1,
                             clip, zoom, zoom, NullColor))
             ELSE [gl |-> g_setup, texid |-> id, draw |-> NoDraw]
        ELSE IF ibuf.rect
        THEN ImmDrawPixelsTexScaled_clipping(g_setup, id,
               DrawArgs(x, y, ibuf.x, ibuf.y, "GL_RGBA", "GL_UNSIGNED_BYTE", 1, 1,
                        clip, zoom, zoom, NullColor))
        ELSE [gl |-> g_setup, texid |-> id, draw |-> NoDraw]
      after_glsl == IF glsl THEN [glsl_draw EXCEPT !.gl = shader_unbind(@)] ELSE none
      need_fallback == ~glsl
      \* the GLSL path was not taken: the GL state is still the one at entry
      fallback_draw ==
        IF display_buffer
        THEN ImmDrawPixelsTexScaled_clipping(shader_unbind(g), id,
               DrawArgs(x, y, ibuf.x, ibuf.y, "GL_RGBA", "GL_UNSIGNED_BYTE", 1, 1,
                        clip, zoom, zoom, NullColor))
        ELSE after_glsl
      result == IF need_fallback THEN fallback_draw ELSE after_glsl
      info == [op |-> "glaDrawImBuf_glsl_clipping", ibuf |-> ibuf, method |-> method,
               setup_ok |-> ok, display_buffer |-> display_buffer]
  IN IF ~ibuf.rect /\ ~ibuf.rect_float
     THEN [gl |-> g, texid |-> id, draw |-> NoDraw,
           imbuf |-> [early_out |-> TRUE, setup_attempted |-> FALSE,
                      glsl_path |-> FALSE, fallback_path |-> FALSE,
                      assert_failed |-> FALSE] @@ info]
     ELSE [gl |-> result.gl, texid |-> result.texid,
           draw |-> IF result.draw.op = "none" THEN NoDraw
                    ELSE [result.draw EXCEPT !.op = "immDrawPixelsTex_clipping"],
           imbuf |-> [early_out |-> FALSE, setup_attempted |-> attempted,
                      glsl_path |-> glsl, fallback_path |-> need_fallback,
                      assert_failed |-> glsl /\ ibuf.rect_float /\ float_format = "0"]
                     @@ info]

glaDrawImBuf_glsl_clipping(ibuf, x, y, clip, zoom, method, ok, display_buffer) ==
  /\ pc = "idle"
  /\ LET r == GlaDrawImBuf_glsl_clipping(gl, texid, ibuf, x, y, clip, zoom, method,
                                         ok, display_buffer)
     IN /\ gl' = r.gl
        /\ texid' = r.texid
        /\ draw' = r.draw
        /\ imbuf' = r.imbuf
  /\ pc' = "returned"
  /\ UNCHANGED <<asset_vars, catalog_vars, rest_vars>>

\* glaDrawImBuf_glsl: the same without clipping.
glaDrawImBuf_glsl(ibuf, x, y, zoom, method, ok, display_buffer) ==
  glaDrawImBuf_glsl_clipping(ibuf, x, y, NoClip, zoom, method, ok, display_buffer)

DrawInit ==
  /\ gl = [current_program |-> 0, imm_bound_program |-> 0, bound_texture |-> 0,
           unpack_row_length |-> 0, gen_textures |-> 0, tex_size |-> <<0, 0>>,
           tex_internal_format |-> "none"]
  /\ texid = -1
  /\ draw = NoDraw
  /\ imbuf = NoDraw
  /\ pc = "idle"

\* The drawing calls with the image size and the other arguments drawn from the
\* given sets.
DrawCalls(sizes, formats, types, scales, clips, zooms, colors) ==
  \/ /\ pc = "idle"
     /\ \E img_w \in sizes, img_h \in sizes, format \in formats, type \in types,
           sc \in scales, clip \in clips, o \in Origins, zoom \in zooms,
           color \in colors :
          immDrawPixelsTexScaled_clipping(
            DrawArgs(o[1], o[2], img_w, img_h, format, type, sc, sc, clip,
                     zoom, zoom, color))
  \/ /\ pc = "idle"
     /\ \E img_w \in sizes, img_h \in sizes, format \in formats, type \in types,
           sc \in scales, o \in Origins, zoom \in zooms, color \in colors :
          immDrawPixelsTexScaled(o[1], o[2], img_w, img_h, format, type, sc, sc,
                                 zoom, zoom, color)
  \/ /\ pc = "idle"
     /\ \E img_w \in sizes, img_h \in sizes, format \in formats, type \in types,
           o \in Origins, zoom \in zooms, color \in colors :
          immDrawPixelsTex(o[1], o[2], img_w, img_h, format, type, zoom, zoom, color)
  \/ /\ pc = "idle"
     /\ \E img_w \in sizes, img_h \in sizes, format \in formats, type \in types,
           clip \in clips, o \in Origins, zoom \in zooms, color \in colors :
          immDrawPixelsTex_clipping(o[1], o[2], img_w, img_h, format, type, clip,
                                    zoom, zoom, color)

\* Drawing with every combination of format, type, color and bound program, for
\* an image smaller and an image larger than the work texture.
DrawNext ==
  \/ DrawCalls({1, tex_w + 1}, Formats, Types, Scales, ClipRects, {1}, Colors)
  \/ /\ pc = "idle"
     /\ \E ibuf \in ImBufs, clip \in ClipRects, method \in DrawMethods,
           ok \in BOOLEAN, display_buffer \in BOOLEAN, o \in Origins :
          glaDrawImBuf_glsl_clipping(ibuf, o[1], o[2], clip, 1, method, ok,
                                     display_buffer)
  \/ /\ pc = "idle"
     /\ \E ibuf \in ImBufs, method \in DrawMethods,
           ok \in BOOLEAN, display_buffer \in BOOLEAN, o \in Origins :
          glaDrawImBuf_glsl(ibuf, o[1], o[2], 1, method, ok, display_buffer)
  \/ \E program \in UserPrograms \cup {0} : glUseProgram(program)
  \/ caller_continues

\* Drawing images of every size in ImgSizes, with no program bound.
TilesNext ==
  \/ DrawCalls(ImgSizes, {"GL_RGBA", "GL_LUMINANCE"}, {"GL_UNSIGNED_BYTE"},
               Scales, ClipRects, Zooms, {NullColor})
  \/ caller_continues

(***************************************************************************)
(* float arithmetic: a float is m * 2^e with a significand of at most      *)
(* MantissaBits bits, kept as [m, e] with m odd (or both 0) so that equal  *)
(* values are equal records; every operation rounds its exact result to    *)
(* the nearest float, ties to even.  The exponent range is not modelled:   *)
(* the values here stay far from overflow and underflow.                   *)
(***************************************************************************)
\* Bits of a float's significand (FLT_MANT_DIG, scaled down from 24).
MantissaBits == 4

Abs(x) == IF x < 0 THEN -x ELSE x

RECURSIVE Canonical(_, _)
Canonical(m, e) ==
  IF m = 0 THEN [m |-> 0, e |-> 0]
  ELSE IF m % 2 = 0 THEN Canonical(m \div 2, e + 1)
  ELSE [m |-> m, e |-> e]

\* n / d (n >= 0, d > 0) rounded to the nearest integer, ties to even.
RoundHalfEven(n, d) ==
  LET q == n \div d
      r == n % d
  IN IF 2 * r < d THEN q
     ELSE IF 2 * r > d THEN q + 1
     ELSE IF q % 2 = 0 THEN q ELSE q + 1

\* The float nearest to (n / d) * 2^e, for n >= 0 and d > 0.
RECURSIVE RoundRatio(_, _, _)
RoundRatio(n, d, e) ==
  IF n = 0 THEN Canonical(0, 0)
  ELSE IF n >= (2 ^ MantissaBits) * d THEN RoundRatio(n, 2 * d, e + 1)
  ELSE IF n < (2 ^ (MantissaBits - 1)) * d THEN RoundRatio(2 * n, d, e - 1)
  ELSE Canonical(RoundHalfEven(n, d), e)

FNeg(a) == [m |-> -a.m, e |-> a.e]

\* A float literal: the float nearest to n / d.
FloatOf(n, d) ==
  IF n < 0 THEN FNeg(RoundRatio(-n, d, 0)) ELSE RoundRatio(n, d, 0)

\* The exact sum of two floats, as an integer multiple of 2^e.
ExactSum(a, b) ==
  LET e == IF a.e < b.e THEN a.e ELSE b.e
  IN [n |-> a.m * (2 ^ (a.e - e)) + b.m * (2 ^ (b.e - e)), e |-> e]

FAdd(a, b) ==
  LET x == ExactSum(a, b)
  IN IF x.n < 0 THEN FNeg(RoundRatio(-x.n, 1, x.e)) ELSE RoundRatio(x.n, 1, x.e)

FSub(a, b) == FAdd(a, FNeg(b))

FMul(a, b) ==
  LET r == RoundRatio(Abs(a.m) * Abs(b.m), 1, a.e + b.e)
  IN IF (a.m < 0) # (b.m < 0) THEN FNeg(r) ELSE r

\* a > b
FGt(a, b) == ExactSum(a, FNeg(b)).n > 0

FZero == FloatOf(0, 1)
FOne == FloatOf(1, 1)

(***************************************************************************)
(* glutil.c: bglPolygonOffset                                              *)
(***************************************************************************)
\* Calls with dist != 0 made in one behaviour.
MaxOffsetCalls == 3

MatrixModes == {"GL_MODELVIEW", "GL_PROJECTION", "GL_TEXTURE"}

\* A 4x4 matrix as GL keeps it: 16 floats, column-major.
Matrix(m0, m5, m10, m11, m14, m15) ==
  [i \in 0..15 |-> CASE i = 0 -> m0 [] i = 5 -> m5 [] i = 10 -> m10
                     [] i = 11 -> m11 [] i = 14 -> m14 [] i = 15 -> m15
                     [] OTHER -> FZero]

\* The projection matrices a view sets up: GL's initial identity, a perspective
\* view (clip range 0.1 .. 100: winmat[14] is -2 * far * near / (far - near)) and
\* an orthographic view.
Projections ==
  {Matrix(FOne, FOne, FOne, FZero, FZero, FOne),
   Matrix(FOne, FOne, FloatOf(-1001, 999), FNeg(FOne), FloatOf(-200, 999), FZero),
   Matrix(FOne, FOne, FloatOf(-20, 999), FZero, FloatOf(-1001, 999), FOne)}

\* The viewdist and dist arguments.
ViewDists == {FloatOf(1, 1), FloatOf(1000, 1)}
Dists == {FZero, FloatOf(1, 1), FloatOf(16, 1), FloatOf(40, 1), FloatOf(-16, 1)}

\* The call as a function of the GL projection matrix and the two statics.
BglPolygonOffset(proj, w, off, viewdist, dist) ==
  IF dist # FZero
  THEN LET \* glMatrixMode(GL_PROJECTION); glGetFloatv(GL_PROJECTION_MATRIX, winmat)
           got == proj
           offs == IF FGt(got[15], FloatOf(1, 2))
                   THEN FMul(FMul(FloatOf(1, 100000), dist), viewdist)
                   ELSE FMul(FMul(got[14], FloatOf(-25, 10000)), dist)
           w1 == [got EXCEPT ![14] = FSub(@, offs)]
       IN [winmat |-> w1, offset |-> FAdd(off, offs), projection |-> w1,
           matrix_mode |-> "GL_MODELVIEW"]
  ELSE LET w1 == [w EXCEPT ![14] = FAdd(@, off)]
       IN [winmat |-> w1, offset |-> FZero, projection |-> w1,
           matrix_mode |-> "GL_MODELVIEW"]

\* po, the caller's view: how many dist != 0 calls are open (made since offset
\* was last reset), the projection matrix before the first of them, whether
\* nobody else has modified the projection matrix since, after a call with
\* dist == 0, how many calls it closed, and the dist != 0 calls made in all.
bglPolygonOffset(viewdist, dist) ==
  /\ dist # FZero => po.total < MaxOffsetCalls
  /\ LET r == BglPolygonOffset(projection, winmat, offset, viewdist, dist)
     IN /\ winmat' = r.winmat
        /\ offset' = r.offset
        /\ projection' = r.projection
        /\ matrix_mode' = r.matrix_mode
  /\ po' = IF dist = FZero
           THEN [po EXCEPT !.calls = 0, !.closed = po.calls, !.last = "reset"]
           ELSE IF po.calls = 0
           THEN [calls |-> 1, closed |-> 0, before |-> projection, clean |-> TRUE,
                 last |-> "offset", total |-> po.total + 1]
           ELSE [po EXCEPT !.calls = @ + 1, !.last = "offset", !.total = @ + 1]
  /\ UNCHANGED <<asset_vars, catalog_vars, draw_vars, explode_vars, service_vars>>

\* Somebody else sets up a view: glMatrixMode(GL_PROJECTION); glLoadMatrixf(m).
load_projection(m) ==
  /\ projection' = m
  /\ matrix_mode' = "GL_PROJECTION"
  /\ po' = [po EXCEPT !.clean = FALSE, !.last = "other"]
  /\ UNCHANGED <<winmat, offset, asset_vars, catalog_vars, draw_vars, explode_vars, service_vars>>

\* Somebody else selects a matrix stack.
glMatrixMode(mode) ==
  /\ matrix_mode' = mode
  /\ po' = [po EXCEPT !.last = "other"]
  /\ UNCHANGED <<projection, winmat, offset, asset_vars, catalog_vars, draw_vars,
                 explode_vars, service_vars>>

PolygonInit ==
  /\ projection = Matrix(FOne, FOne, FOne, FZero, FZero, FOne)
  /\ matrix_mode = "GL_MODELVIEW"
  /\ winmat = [i \in 0..15 |-> FZero]
  /\ offset = FZero
  /\ po = [calls |-> 0, closed |-> 0, before |-> projection, clean |-> TRUE,
           last |-> "none", total |-> 0]

PolygonNext ==
  \/ \E viewdist \in ViewDists, dist \in Dists : bglPolygonOffset(viewdist, dist)
  \/ \E m \in Projections : load_projection(m)
  \/ \E mode \in MatrixModes : glMatrixMode(mode)

(***************************************************************************)
(* AS_asset_full_path_explode_from_weak_ref                                *)
(***************************************************************************)
\* FILE_MAX_LIBEXTRA, the size of r_path_buffer (scaled down from 1090).
FileMaxLibExtra == 8

\* A char *: not yet assigned by anyone, nullptr, or r_path_buffer + off.
UninitPtr == [kind |-> "uninitialized", off |-> 0]
NullPtr == [kind |-> "nullptr", off |-> 0]
BufferPtr(off) == [kind |-> "r_path_buffer", off |-> off]

\* std::optional<AssetLibraryService::ExplodedPath>: std::nullopt, or the full
\* path with its directory, group and name components.
NoExploded ==
  [has_value |-> FALSE, full_path |-> <<>>, dir_component |-> <<>>,
   group_component |-> <<>>, name_component |-> <<>>]

ExplodedPath(dir_component, group_component, name_component) ==
  [has_value |-> TRUE,
   full_path |-> IF dir_component = <<>>
                 THEN group_component \o <<"/">> \o name_component
                 ELSE dir_component \o <<"/">> \o group_component
                        \o <<"/">> \o name_component,
   dir_component |-> dir_component, group_component |-> group_component,
   name_component |-> name_component]

\* What resolve_asset_weak_reference_to_exploded_path answers: nothing, an asset
\* of the current file (no directory) or an asset of a library file; the paths
\* fit the buffer.
Resolutions ==
  {NoExploded,
   ExplodedPath(<<>>, <<"G", "r">>, <<"n">>),
   ExplodedPath(<<"d">>, <<"G">>, <<"n">>),
   ExplodedPath(<<"d", "e">>, <<"G">>, <<"n", "m">>)}

\* Which of r_dir, r_group and r_name are passed non-null.
Passed == [dir : BOOLEAN, group : BOOLEAN, name : BOOLEAN]

\* The call as a function of what the reference resolves to, the buffer, the
\* caller's three pointers and which of them were passed: the buffer and the
\* pointers after the call.  r_path_buffer[i] of the code is buf[i + 1].
\* Faulty variant: on failure the buffer is left as it was.
Explode_buffer_kept(exploded, buf, dir, group, name, passed) ==
  IF ~exploded.has_value
  THEN [r_path_buffer |-> buf,
        r_dir |-> IF passed.dir THEN NullPtr ELSE dir,
        r_group |-> IF passed.group THEN NullPtr ELSE group,
        r_name |-> IF passed.name THEN NullPtr ELSE name]
  ELSE LET copied == STRNCPY(buf, exploded.full_path)
           dir_size == Len(exploded.dir_component)
           group_size == Len(exploded.group_component)
       IN IF exploded.dir_component # <<>>
          THEN [r_path_buffer |-> [copied EXCEPT ![dir_size + 1] = NUL,
                                                 ![dir_size + 1 + group_size + 1] = NUL],
                r_dir |-> IF passed.dir THEN BufferPtr(0) ELSE dir,
                r_group |-> IF passed.group THEN BufferPtr(dir_size + 1) ELSE group,
                r_name |-> IF passed.name
                           THEN BufferPtr(dir_size + 1 + group_size + 1) ELSE name]
          ELSE [r_path_buffer |-> [copied EXCEPT ![group_size + 1] = NUL],
                r_dir |-> IF passed.dir THEN NullPtr ELSE dir,
                r_group |-> IF passed.group THEN BufferPtr(0) ELSE group,
                r_name |-> IF passed.name THEN BufferPtr(group_size + 1) ELSE name]

Explode(exploded, buf, dir, group, name, passed) ==
  IF ~exploded.has_value
  THEN [r_path_buffer |-> [buf EXCEPT ![1] = NUL],
        r_dir |-> IF passed.dir THEN NullPtr ELSE dir,
        r_group |-> IF passed.group THEN NullPtr ELSE group,
        r_name |-> IF passed.name THEN NullPtr ELSE name]
  ELSE LET copied == STRNCPY(buf, exploded.full_path)
           dir_size == Len(exploded.dir_component)
           group_size == Len(exploded.group_component)
       IN IF exploded.dir_component # <<>>
          THEN [r_path_buffer |-> [copied EXCEPT ![dir_size + 1] = NUL,
                                                 ![dir_size + 1 + group_size + 1] = NUL],
                r_dir |-> IF passed.dir THEN BufferPtr(0) ELSE dir,
                r_group |-> IF passed.group THEN BufferPtr(dir_size + 1) ELSE group,
                r_name |-> IF passed.name
                           THEN BufferPtr(dir_size + 1 + group_size + 1) ELSE name]
          ELSE [r_path_buffer |-> [copied EXCEPT ![group_size + 1] = NUL],
                r_dir |-> IF passed.dir THEN NullPtr ELSE dir,
                r_group |-> IF passed.group THEN BufferPtr(0) ELSE group,
                r_name |-> IF passed.name THEN BufferPtr(group_size + 1) ELSE name]

AS_asset_full_path_explode_from_weak_ref(exploded, passed) ==
  /\ LET r == Explode(exploded, r_path_buffer, r_dir, r_group, r_name, passed)
     IN /\ r_path_buffer' = r.r_path_buffer
        /\ r_dir' = r.r_dir
        /\ r_group' = r.r_group
        /\ r_name' = r.r_name
  /\ explode_last' = [op |-> "AS_asset_full_path_explode_from_weak_ref",
                      exploded |-> exploded, passed |-> passed]
  /\ UNCHANGED <<asset_vars, catalog_vars, draw_vars, polygon_vars, service_vars>>

\* The string the pointer p points at, for a pointer into the buffer.
StringAt(buf, p) == CStr([i \in 1..(Len(buf) - p.off) |-> buf[i + p.off]])

ExplodeInit ==
  /\ r_path_buffer = [i \in 1..FileMaxLibExtra |-> "?"]
  /\ r_dir = UninitPtr
  /\ r_group = UninitPtr
  /\ r_name = UninitPtr
  /\ explode_last = [op |-> "none", exploded |-> NoExploded,
                     passed |-> [dir |-> FALSE, group |-> FALSE, name |-> FALSE]]

ExplodeNext ==
  \E exploded \in Resolutions, passed \in Passed :
    AS_asset_full_path_explode_from_weak_ref(exploded, passed)

(***************************************************************************)
(* AssetLibrary::load_catalogs, run by several threads, and the accessor   *)
(* AssetLibrary::catalog_service.  Each statement of load_catalogs is a    *)
(* step; the move assignment to the std::unique_ptr member is the three    *)
(* steps of reset(): read the old pointer, store the new one, delete the   *)
(* old object.                                                             *)
(***************************************************************************)
\* load_catalogs calls made in one behaviour.
MaxLoads == 3

Threads == {"thread_1", "thread_2"}
\* The AssetCatalogService objects: the constructor's and one per load_catalogs.
Services == 1..(MaxLoads + 1)
Unlocked == "unlocked"

Allocations == {x \in Services : service_state[x] # "unallocated"}

ThreadIdle == [pc |-> "idle", local |-> 0, old_p |-> 0, seen |-> "none"]

\* auto catalog_service = std::make_unique<AssetCatalogService>(root_path());
make_unique(t) ==
  /\ thread[t].pc = "idle"
  /\ Cardinality(Allocations) <= MaxLoads
  /\ LET x == Cardinality(Allocations) + 1
     IN /\ service_state' = [service_state EXCEPT ![x] = "created"]
        /\ thread' = [thread EXCEPT ![t] = [ThreadIdle EXCEPT !.pc = "load_from_disk", !.local = x]]
  /\ UNCHANGED <<catalog_service_, catalog_service_mutex_>>
  /\ UNCHANGED <<asset_vars, catalog_vars, draw_vars, polygon_vars, explode_vars>>

\* catalog_service->load_from_disk(): the catalogs are read one file after the
\* other; until it returns the service is partially loaded.
load_from_disk_begin(t) ==
  /\ thread[t].pc = "load_from_disk"
  /\ service_state' = [service_state EXCEPT ![thread[t].local] = "loading"]
  /\ thread' = [thread EXCEPT ![t].pc = "loading"]
  /\ UNCHANGED <<catalog_service_, catalog_service_mutex_>>
  /\ UNCHANGED <<asset_vars, catalog_vars, draw_vars, polygon_vars, explode_vars>>

load_from_disk_return(t) ==
  /\ thread[t].pc = "loading"
  /\ service_state' = [service_state EXCEPT ![thread[t].local] = "loaded"]
  /\ thread' = [thread EXCEPT ![t].pc = "lock"]
  /\ UNCHANGED <<catalog_service_, catalog_service_mutex_>>
  /\ UNCHANGED <<asset_vars, catalog_vars, draw_vars, polygon_vars, explode_vars>>

\* std::lock_guard lock{catalog_service_mutex_};
\* Faulty variant: the guard does not wait for the mutex.
lock_guard_no_wait(t) ==
  /\ thread[t].pc = "lock"
  /\ catalog_service_mutex_' = t
  /\ thread' = [thread EXCEPT ![t].pc = "move_read"]
  /\ UNCHANGED <<catalog_service_, service_state>>
  /\ UNCHANGED <<asset_vars, catalog_vars, draw_vars, polygon_vars, explode_vars>>

lock_guard(t) ==
  /\ thread[t].pc = "lock"
  /\ catalog_service_mutex_ = Unlocked
  /\ catalog_service_mutex_' = t
  /\ thread' = [thread EXCEPT ![t].pc = "move_read"]
  /\ UNCHANGED <<catalog_service_, service_state>>
  /\ UNCHANGED <<asset_vars, catalog_vars, draw_vars, polygon_vars, explode_vars>>

\* catalog_service_ = std::move(catalog_service): reset() reads the old pointer,
move_read_old(t) ==
  /\ thread[t].pc = "move_read"
  /\ thread' = [thread EXCEPT ![t].pc = "move_store", ![t].old_p = catalog_service_]
  /\ UNCHANGED <<catalog_service_, catalog_service_mutex_, service_state>>
  /\ UNCHANGED <<asset_vars, catalog_vars, draw_vars, polygon_vars, explode_vars>>

\* stores the pointer released by the local,
move_store_new(t) ==
  /\ thread[t].pc = "move_store"
  /\ catalog_service_' = thread[t].local
  /\ thread' = [thread EXCEPT ![t].pc = "move_delete", ![t].local = 0]
  /\ UNCHANGED <<catalog_service_mutex_, service_state>>
  /\ UNCHANGED <<asset_vars, catalog_vars, draw_vars, polygon_vars, explode_vars>>

\* and deletes the old object, if there was one.
move_delete_old(t) ==
  /\ thread[t].pc = "move_delete"
  /\ service_state' =
       IF thread[t].old_p = 0 THEN service_state
       ELSE [service_state EXCEPT ![thread[t].old_p] =
               IF @ = "destroyed" THEN "destroyed twice" ELSE "destroyed"]
  /\ thread' = [thread EXCEPT ![t].pc = "unlock", ![t].old_p = 0]
  /\ UNCHANGED <<catalog_service_, catalog_service_mutex_>>
  /\ UNCHANGED <<asset_vars, catalog_vars, draw_vars, polygon_vars, explode_vars>>

\* The end of load_catalogs: the lock_guard releases the mutex.
lock_guard_release(t) ==
  /\ thread[t].pc = "unlock"
  /\ catalog_service_mutex_' = Unlocked
  /\ thread' = [thread EXCEPT ![t].pc = "idle"]
  /\ UNCHANGED <<catalog_service_, service_state>>
  /\ UNCHANGED <<asset_vars, catalog_vars, draw_vars, polygon_vars, explode_vars>>

\* AssetLibrary::catalog_service(): return *catalog_service_, without the mutex;
\* seen is the state of the service the caller gets.
catalog_service(t) ==
  /\ thread[t].pc = "idle"
  /\ thread' = [thread EXCEPT ![t].seen =
              IF catalog_service_ = 0 THEN "nullptr dereferenced"
              ELSE service_state[catalog_service_]]
  /\ UNCHANGED <<catalog_service_, catalog_service_mutex_, service_state>>
  /\ UNCHANGED <<asset_vars, catalog_vars, draw_vars, polygon_vars, explode_vars>>

\* AssetLibrary::AssetLibrary: catalog_service_(std::make_unique<AssetCatalogService>())
ServiceInit ==
  /\ catalog_service_ = 1
  /\ catalog_service_mutex_ = Unlocked
  /\ service_state = [x \in Services |-> IF x = 1 THEN "constructed" ELSE "unallocated"]
  /\ thread = [t \in Threads |-> ThreadIdle]

ServiceNext ==
  \E t \in Threads :
    \/ make_unique(t)
    \/ load_from_disk_begin(t)
    \/ load_from_disk_return(t)
    \/ lock_guard(t)
    \/ move_read_old(t)
    \/ move_store_new(t)
    \/ move_delete_old(t)
    \/ lock_guard_release(t)
    \/ catalog_service(t)

(***************************************************************************)
(* Specifications                                                           *)
(***************************************************************************)
AssetInit ==
  /\ next_addr = 1
  /\ relative_identifier = [a \in Addrs |-> ""]
  /\ is_local_id = [a \in Addrs |-> FALSE]
  /\ local_asset_id = [a \in Addrs |-> Null]
  /\ use_count = [a \in Addrs |-> 0]
  /\ held = {}
  /\ local_id_assets = {}
  /\ external_assets = {}
  /\ last = Call("construct", 0, FALSE, 0, NoResults)

AssetNext ==
  \/ \E p \in Paths : add_external_asset(p)
  \/ \E p \in Paths, id \in IDs : add_local_id_asset(p, id)
  \/ \E a \in Addrs : remove_asset(a)
  \/ \E m \in Mappings : remap_ids_and_remove_invalid(m)
  \/ \E a \in Addrs : weak_ptr_lock(a)
  \/ \E a \in Addrs : shared_ptr_reset(a)

Init == AssetInit /\ CatalogInit /\ DrawInit /\ PolygonInit /\ ExplodeInit
          /\ ServiceInit

SpecAsset == Init /\ [][AssetNext]_vars

SpecCatalog == Init /\ [][CatalogNext]_vars

SpecDraw == Init /\ [][DrawNext]_vars

SpecTiles == Init /\ [][TilesNext]_vars

SpecPolygonOffset == Init /\ [][PolygonNext]_vars

SpecExplode == Init /\ [][ExplodeNext]_vars

SpecService == Init /\ [][ServiceNext]_vars

(***************************************************************************)
(* Properties of the asset library (checked under SpecAsset)               *)
(***************************************************************************)
Unassigned(results) ==
  {a \in Addrs : results[a] = "ID_REMAP_RESULT_SOURCE_UNASSIGNED"}

\* C1: no representation stored in the local-ID set has a null local ID pointer,
\* and a remap_ids_and_remove_invalid call removes from the storage exactly the
\* stored local assets for which the remapper returned
\* ID_REMAP_RESULT_SOURCE_UNASSIGNED, keeping every other stored asset.
C1_NoNullLocalIdAndExactRemoval ==
  /\ [](\A a \in local_id_assets : local_asset_id[a] # Null)
  /\ [][last'.op = "remap_ids_and_remove_invalid" =>
          /\ local_id_assets' = local_id_assets \ Unassigned(last'.results)
          /\ Unassigned(last'.results) \subseteq local_id_assets
          /\ external_assets' = external_assets]_vars

\* C1 witness: a remap has removed one local asset (unassigned) and kept another.
C1_Witness ==
  /\ last.op = "remap_ids_and_remove_invalid"
  /\ \E a \in Allocated : /\ last.results[a] = "ID_REMAP_RESULT_SOURCE_UNASSIGNED"
                          /\ a \notin local_id_assets
  /\ \E b \in local_id_assets : last.results[b] = "ID_REMAP_RESULT_SOURCE_REMAPPED"

\* C3: no two representations stored in one library have the same relative
\* identifier.
C3_UniqueRelativeIdentifier ==
  \A a, b \in Stored : a # b => relative_identifier[a] # relative_identifier[b]

\* C4: every representation in the local-ID set is local, every one in the
\* external set is not, no representation is in both sets, and the flag of a
\* constructed representation never changes.
C4_SetsMatchFlag ==
  /\ [](/\ \A a \in local_id_assets : is_local_id[a]
        /\ \A a \in external_assets : ~is_local_id[a]
        /\ local_id_assets \cap external_assets = {})
  /\ [][\A a \in Allocated : is_local_id'[a] = is_local_id[a]]_vars

\* C4 witness: both sets hold a representation.
C4_Witness ==
  /\ local_id_assets # {}
  /\ external_assets # {}
  /\ last.op \in {"remove_asset", "remap_ids_and_remove_invalid"}

\* C5: the weak_ptr returned by add_*_asset is not expired (a lock succeeds) while
\* its representation is stored, and is expired once the representation has been
\* removed and no caller holds a shared_ptr obtained by locking it.
C5_WeakPtrFollowsStorage ==
  /\ \A a \in Allocated :
       /\ a \in Stored => ~expired(a)
       /\ (a \notin Stored /\ a \notin held) => expired(a)
  /\ (last.op = "lock" /\ last.arg \in Stored) => last.ret
  /\ last.op \in {"add_external_asset", "add_local_id_asset"} =>
       (last.ptr = last.arg /\ last.ptr \in Stored)

\* C5 witness: a representation has been removed while a caller held it, the
\* caller has let go, and the weak_ptr is expired; another one is still stored.
C5_Witness ==
  /\ last.op = "reset"
  /\ last.arg \notin Stored
  /\ expired(last.arg)
  /\ \E b \in Stored : ~expired(b)

\* C10: remove_asset returns true iff the representation was stored before the
\* call; after a true return it is in neither set and every other stored
\* representation still is; after a false return the storage is unchanged; a
\* second removal of the same representation returns false.
C10_RemoveAssetEffect ==
  [][last'.op = "remove_asset" =>
       LET a == last'.arg IN
       /\ last'.ret = (a \in Stored)
       /\ last'.ret => /\ a \notin local_id_assets' \cup external_assets'
                       /\ local_id_assets' = local_id_assets \ {a}
                       /\ external_assets' = external_assets \ {a}
       /\ ~last'.ret => UNCHANGED <<local_id_assets, external_assets>>
       /\ (last.op = "remove_asset" /\ last.arg = a) => ~last'.ret]_vars

\* C10 witness: a removal returned true and left another representation stored.
C10_Witness ==
  /\ last.op = "remove_asset"
  /\ last.ret
  /\ last.arg \notin Stored
  /\ Stored # {}

(***************************************************************************)
(* Properties of refresh_catalog_simplename (checked under SpecCatalog)    *)
(***************************************************************************)
Prefix(seq, n) == [i \in 1..Min(n, Len(seq)) |-> seq[i]]

\* C9: refresh_catalog_simplename makes the simple name the empty string when the
\* catalog ID is nil, leaves the stored simple name unchanged when the ID is not
\* nil and no catalog has it, and otherwise sets it to the found catalog's simple
\* name, truncated to the field size (with its terminating NUL).
C9_RefreshCatalogSimplename ==
  [][cat_last' = "refresh_catalog_simplename" =>
       /\ asset_data'.catalog_id = asset_data.catalog_id
       /\ IF asset_data.catalog_id = NilUUID
          THEN CStr(asset_data'.catalog_simple_name) = <<>>
          ELSE IF catalogs[asset_data.catalog_id] = NoCatalog
          THEN asset_data' = asset_data
          ELSE /\ CStr(asset_data'.catalog_simple_name)
                    = Prefix(catalogs[asset_data.catalog_id].simple_name, SimpleNameSize - 1)
               /\ \E i \in 1..SimpleNameSize : asset_data'.catalog_simple_name[i] = NUL]_vars

\* C9 witness: a refresh has left a stale simple name in place, because the
\* asset's catalog is no longer in the service.
C9_Witness ==
  /\ cat_last = "refresh_catalog_simplename"
  /\ asset_data.catalog_id # NilUUID
  /\ catalogs[asset_data.catalog_id] = NoCatalog
  /\ StrLen(asset_data.catalog_simple_name) = SimpleNameSize - 1

(***************************************************************************)
(* Properties of the image drawing (checked under SpecTiles and SpecDraw)  *)
(***************************************************************************)
DrawOps == {"immDrawPixelsTexScaled_clipping", "immDrawPixelsTexScaled",
            "immDrawPixelsTex", "immDrawPixelsTex_clipping"}

\* The call went past the format test and through the tile loops.
Drew == draw.op \in DrawOps /\ ~draw.returned_early

ClippingDisabled(a) == ~(a.clip_min_x < a.clip_max_x /\ a.clip_min_y < a.clip_max_y)

\* Image pixel (px, py) lies in the sub-rectangle of tile t that its quad shows.
InDrawnPart(t, px, py) ==
  LET tx == px - t.subpart_x * draw.offset_x
      ty == py - t.subpart_y * draw.offset_y
  IN /\ t.offset_left <= tx /\ tx < t.subpart_w - t.offset_right
     /\ t.offset_bot <= ty /\ ty < t.subpart_h - t.offset_top

\* C2: with a supported format and clipping disabled, for every image size
\* img_w >= 1, img_h >= 1, every image pixel lies inside the drawn sub-rectangle
\* of some tile that is drawn (tiles are skipped only when their pixels were
\* drawn by a preceding tile).
C2_EveryPixelDrawn ==
  (Drew /\ ClippingDisabled(draw.args)) =>
    \A px \in 0..(draw.args.img_w - 1), py \in 0..(draw.args.img_h - 1) :
      \E t \in draw.tiles : InDrawnPart(t, px, py)

\* C6: a direct call that draws uses the program bound at entry when there is
\* one, and binds GPU_SHADER_2D_IMAGE_COLOR with uniform "image" = 0 only when
\* there is none; either way no program is bound when it returns.
C6_ProgramUsedAndUnbound ==
  [][(pc = "idle" /\ draw'.op \in DrawOps /\ imbuf'.op = "none"
      /\ ~draw'.returned_early) =>
       /\ gl.current_program # 0 =>
            /\ draw'.program = gl.current_program
            /\ draw'.image_uniform = NotSet
       /\ gl.current_program = 0 =>
            /\ draw'.program = Builtin.GPU_SHADER_2D_IMAGE_COLOR
            /\ draw'.image_uniform = Uniform(<<0>>)
       /\ gl'.current_program = 0
       /\ gl'.imm_bound_program = 0]_vars

\* C6 witness: a call has drawn with the caller's program and left none bound.
C6_Witness ==
  /\ Drew
  /\ imbuf.op = "none"
  /\ draw.program \in UserPrograms
  /\ draw.tiles # {}
  /\ gl.current_program = 0

\* The value the claim expects for the "color" uniform.
ExpectedColor(a) == IF a.color.null THEN white ELSE a.color.rgba

\* C7 (as claimed): whenever one of the four functions draws, the "color" uniform
\* is white if the color argument is NULL and the given color otherwise.
C7_ColorUniformAlwaysSet ==
  Drew => draw.color_uniform = Uniform(ExpectedColor(draw.args))

\* C7 (amended): the same whenever the program drawn with has a "color" uniform,
\* as the builtin program does; with a bound program that has none, no "color"
\* uniform is set.
C7_ColorUniformWhenPresent ==
  Drew => IF HasColorUniform(draw.program)
          THEN draw.color_uniform = Uniform(ExpectedColor(draw.args))
          ELSE draw.color_uniform = NotSet

\* C7 witness: a wrapper has drawn with a given color, using the caller's
\* program that has a "color" uniform.
C7_Witness ==
  /\ Drew
  /\ draw.op = "immDrawPixelsTex"
  /\ ~draw.args.color.null
  /\ draw.program \in UserPrograms
  /\ draw.color_uniform = Uniform(draw.args.color.rgba)

\* C8: for a buffer with pixel data, the fallback path is taken iff the buffer is
\* single-channel, or the draw method is not GLSL, or the GLSL setup fails; the
\* GLSL path and the fallback path are never both taken; the GLSL setup is never
\* attempted for a single-channel buffer.
C8_FallbackIffGlslUnusable ==
  (imbuf.op = "glaDrawImBuf_glsl_clipping"
   /\ (imbuf.ibuf.rect \/ imbuf.ibuf.rect_float)) =>
    /\ imbuf.fallback_path <=> \/ imbuf.ibuf.channels = 1
                               \/ imbuf.method # "IMAGE_DRAW_METHOD_GLSL"
                               \/ ~imbuf.setup_ok
    /\ ~(imbuf.glsl_path /\ imbuf.fallback_path)
    /\ imbuf.ibuf.channels = 1 => ~imbuf.setup_attempted
    /\ imbuf.glsl_path => imbuf.setup_attempted

\* C8 witness: the GLSL setup was attempted and failed, and the display buffer
\* was drawn instead.
C8_Witness ==
  /\ imbuf.op = "glaDrawImBuf_glsl_clipping"
  /\ imbuf.setup_attempted
  /\ ~imbuf.setup_ok
  /\ imbuf.fallback_path
  /\ draw.op = "immDrawPixelsTex_clipping"
  /\ draw.tiles # {}

\* The immDrawPixelsTex* call computed its tiling (it does so before the format
\* test).
Tiled == draw.op \in DrawOps

\* n = ceil(size / step), for step > 0.
IsCeilDiv(n, size, step) == n * step >= size /\ (n - 1) * step < size

\* C11: seamless is 2 exactly when the image is larger than the 256x256 work
\* texture in at least one dimension and 0 otherwise; the tile step in both axes
\* is 256 - seamless; the number of tiles iterated along each axis is
\* ceil(img_w / step) resp. ceil(img_h / step).
C11_SeamlessStepAndTileCount ==
  Tiled =>
    /\ draw.seamless = IF draw.args.img_w > 256 \/ draw.args.img_h > 256 THEN 2 ELSE 0
    /\ draw.offset_x = 256 - draw.seamless
    /\ draw.offset_y = 256 - draw.seamless
    /\ IsCeilDiv(draw.nsubparts_x, draw.args.img_w, draw.offset_x)
    /\ IsCeilDiv(draw.nsubparts_y, draw.args.img_h, draw.offset_y)
    /\ Drew => \A t \in draw.tiles : /\ t.subpart_x \in 0..(draw.nsubparts_x - 1)
                                     /\ t.subpart_y \in 0..(draw.nsubparts_y - 1)

\* C11 witness: an image that fits the work texture in width only has been
\* drawn: seamless, one column of tiles, more than one row.
C11_Witness ==
  /\ Drew
  /\ draw.args.img_w <= tex_w
  /\ draw.args.img_h > tex_h
  /\ draw.seamless = 2
  /\ draw.nsubparts_x = 1
  /\ draw.nsubparts_y > 1
  /\ \E t \in draw.tiles : t.subpart_y = draw.nsubparts_y - 1

\* The sub-rectangle of the image that tile t's quad shows:
\* [x_min, x_max) x [y_min, y_max) in image pixel coordinates.
DrawnRect(t) ==
  [x_min |-> t.subpart_x * draw.offset_x + t.offset_left,
   x_max |-> t.subpart_x * draw.offset_x + t.subpart_w - t.offset_right,
   y_min |-> t.subpart_y * draw.offset_y + t.offset_bot,
   y_max |-> t.subpart_y * draw.offset_y + t.subpart_h - t.offset_top]

RectsOverlap(r, s) ==
  /\ r.x_min < s.x_max /\ s.x_min < r.x_max
  /\ r.y_min < s.y_max /\ s.y_min < r.y_max

\* C12: with scaleX = scaleY = 1 and clipping disabled, the drawn sub-rectangles
\* of two distinct drawn tiles are disjoint (no image pixel is drawn by more than
\* one tile), and drawn tiles that are neighbours in a row or a column abut
\* without a gap; each quad on screen is its sub-rectangle, zoomed, at the origin.
C12_DrawnTilesDisjointAndAbut ==
  (Drew /\ ClippingDisabled(draw.args)
   /\ draw.args.scaleX = 1 /\ draw.args.scaleY = 1) =>
    /\ \A t, u \in draw.tiles :
         /\ t # u => ~RectsOverlap(DrawnRect(t), DrawnRect(u))
         /\ (u.subpart_x = t.subpart_x + 1 /\ u.subpart_y = t.subpart_y) =>
              /\ DrawnRect(u).x_min = DrawnRect(t).x_max
              /\ DrawnRect(u).y_min = DrawnRect(t).y_min
              /\ DrawnRect(u).y_max = DrawnRect(t).y_max
         /\ (u.subpart_y = t.subpart_y + 1 /\ u.subpart_x = t.subpart_x) =>
              /\ DrawnRect(u).y_min = DrawnRect(t).y_max
              /\ DrawnRect(u).x_min = DrawnRect(t).x_min
              /\ DrawnRect(u).x_max = DrawnRect(t).x_max
    /\ \A t \in draw.tiles :
         /\ DrawnRect(t).x_min < DrawnRect(t).x_max
         /\ DrawnRect(t).y_min < DrawnRect(t).y_max
         /\ t.pos_min = <<draw.args.x + DrawnRect(t).x_min * draw.args.xzoom,
                          draw.args.y + DrawnRect(t).y_min * draw.args.yzoom>>
         /\ t.pos_max = <<draw.args.x + DrawnRect(t).x_max * draw.args.xzoom,
                          draw.args.y + DrawnRect(t).y_max * draw.args.yzoom>>

\* C12 witness: a seamless image was drawn in two columns and two rows of tiles,
\* while a third column of 2 leftover pixels was skipped.
C12_Witness ==
  /\ Drew /\ ClippingDisabled(draw.args)
  /\ draw.args.scaleX = 1 /\ draw.args.scaleY = 1
  /\ draw.args.xzoom = 2
  /\ draw.args.img_w = 2 * (tex_w - 2) + 2
  /\ draw.nsubparts_x = 3
  /\ Cardinality(draw.tiles) = 4

\* C14: get_cached_work_texture creates the GL work texture on its first call
\* only (static texid still -1) and that call leaves no 2D texture bound; every
\* later call, after any sequence of draw calls, returns the same texture id and
\* the size 256x256, and no texture is generated or resized (none is ever
\* deleted: one texture exists from the first call on).
C14_WorkTextureCreatedOnce ==
  /\ [](/\ texid = -1 <=> gl.gen_textures = 0
        /\ texid # -1 => /\ gl.gen_textures = 1
                         /\ gl.tex_size = <<256, 256>>)
  /\ [][draw'.op \in DrawOps =>
          /\ draw'.work_texture.w = 256 /\ draw'.work_texture.h = 256
          /\ draw'.work_texture.texid = texid'
          /\ texid = -1 => /\ gl'.gen_textures = gl.gen_textures + 1
                           /\ texid' # -1
                           /\ draw'.work_texture.bound_texture = 0
          /\ texid # -1 => /\ texid' = texid
                           /\ gl'.gen_textures = gl.gen_textures
                           /\ gl'.tex_size = gl.tex_size]_vars

\* C14 witness: a later call, made while the texture of an earlier call that
\* returned early was still bound and holding float data, got the same texture.
C14_Witness ==
  /\ draw.op \in DrawOps
  /\ imbuf.op = "glaDrawImBuf_glsl_clipping"
  /\ gl.gen_textures = 1
  /\ draw.work_texture.texid = texid
  /\ draw.work_texture.bound_texture = texid
  /\ gl.tex_internal_format = "GL_RGBA16F_ARB"

(***************************************************************************)
(* Properties of bglPolygonOffset (checked under SpecPolygonOffset)        *)
(***************************************************************************)
\* C13: bglPolygonOffset is reversible: after one or more calls with dist != 0
\* followed by one call with dist == 0, with the projection matrix not modified
\* by anyone else in between, the projection matrix equals its value before the
\* first call, the static offset is 0 again and the matrix mode is GL_MODELVIEW.
C13_PolygonOffsetReversible ==
  (po.last = "reset" /\ po.closed >= 1 /\ po.clean) =>
    /\ projection = po.before
    /\ offset = FZero
    /\ matrix_mode = "GL_MODELVIEW"

(***************************************************************************)
(* Properties of AS_asset_full_path_explode_from_weak_ref (checked under   *)
(* SpecExplode)                                                            *)
(***************************************************************************)
\* C15: when the weak reference cannot be resolved, r_path_buffer becomes the
\* empty string and each of r_dir, r_group and r_name that was passed non-null is
\* set to a null pointer (a pointer that was not passed keeps its value).
C15_UnresolvedReferenceOutputs ==
  [][(explode_last'.op = "AS_asset_full_path_explode_from_weak_ref"
      /\ ~explode_last'.exploded.has_value) =>
       /\ CStr(r_path_buffer') = <<>>
       /\ r_dir' = IF explode_last'.passed.dir THEN NullPtr ELSE r_dir
       /\ r_group' = IF explode_last'.passed.group THEN NullPtr ELSE r_group
       /\ r_name' = IF explode_last'.passed.name THEN NullPtr ELSE r_name]_vars

\* C15 witness: a reference did not resolve after an earlier one had: the buffer
\* holds the empty string in front of the earlier path's bytes, the group pointer
\* that was passed is null and the name pointer that was not passed still points
\* into the buffer.
C15_Witness ==
  /\ explode_last.op = "AS_asset_full_path_explode_from_weak_ref"
  /\ ~explode_last.exploded.has_value
  /\ explode_last.passed.group /\ ~explode_last.passed.name
  /\ CStr(r_path_buffer) = <<>>
  /\ r_path_buffer[2] = "r"
  /\ r_group = NullPtr
  /\ r_name.kind = "r_path_buffer"
  /\ StringAt(r_path_buffer, r_name) = <<"n">>

(***************************************************************************)
(* Properties of load_catalogs (checked under SpecService)                 *)
(***************************************************************************)
\* The threads inside the replacement: past the lock_guard, before its release.
Replacing == {t \in Threads : thread[t].pc \in {"move_read", "move_store", "move_delete", "unlock"}}

\* C16: the catalog service pointer is non-null in every reachable state, through
\* any number of concurrent load_catalogs calls; the service it points to is
\* never a partially loaded (or a destroyed) one, whoever holds the mutex; the
\* pointer is replaced only by the thread holding catalog_service_mutex_ and only
\* by a service whose load_from_disk has returned; at most one thread is inside
\* the replacement at a time, so no service is published or destroyed twice.
C16_CatalogServicePublishedUnderMutex ==
  /\ [](/\ catalog_service_ # 0
        /\ service_state[catalog_service_] \in {"constructed", "loaded"}
        /\ Cardinality(Replacing) <= 1
        /\ \A t \in Replacing : catalog_service_mutex_ = t
        /\ \A t \in Threads : thread[t].seen \in {"none", "constructed", "loaded"}
        /\ \A x \in Services : service_state[x] # "destroyed twice")
  /\ [][catalog_service_' # catalog_service_ =>
          \E t \in Threads : /\ catalog_service_mutex_ = t
                             /\ thread[t].pc = "move_store"
                             /\ catalog_service_' = thread[t].local
                             /\ service_state[catalog_service_'] = "loaded"
                             /\ \A u \in Threads \ {t} : thread'[u] = thread[u]]_vars

\* C16 witness: one thread is in the middle of its replacement (new service
\* stored, old one not yet deleted) while the other has loaded its own service
\* and waits for the mutex, after an earlier replacement.
C16_Witness ==
  \E t, u \in Threads :
    /\ thread[t].pc = "move_delete"
    /\ thread[u].pc = "lock"
    /\ catalog_service_mutex_ = t
    /\ service_state[thread[t].old_p] = "loaded"
    /\ service_state[thread[u].local] = "loaded"
    /\ service_state[1] = "destroyed"

====
